---- MODULE Spec2Model ----
(***************************************************************************)
(* Node editing modal of the JSON editor (NodeModal/index.tsx) and the     *)
(* editor page's "json:update" listener (pages/editor.tsx).                *)
(*                                                                         *)
(* Texts (the stored document, the edit buffer, the event payload) are     *)
(* sequences of lexical tokens: punctuation, bare words (5, true, hello)   *)
(* and quoted strings ("hello").  Insignificant white space, which         *)
(* JSON.stringify(_, null, 2) emits and JSON.parse skips, is not           *)
(* represented.  JSON values are tagged records; every tag has its own     *)
(* payload field.                                                          *)
(***************************************************************************)
EXTENDS Integers, Sequences, FiniteSets, TLC

\* ------------------------------------------------------------------------
\* JavaScript values
\* ------------------------------------------------------------------------
Null == [t |-> "null"]
Undefined == [t |-> "undefined"]
\* a function object reached through the prototype chain (Object, Array, ...)
HostFunction == [t |-> "function"]
Bool(b) == [t |-> "bool", b |-> b]
Num(n) == [t |-> "num", n |-> n]
Str(s) == [t |-> "str", s |-> s]
Arr(a) == [t |-> "arr", a |-> a]
\* an object is its own properties in property order: <<[k |-> key, v |-> value], ...>>
Obj(o) == [t |-> "obj", o |-> o]
Prop(k, v) == [k |-> k, v |-> v]

\* Number literals of the model; a number is carried as its canonical literal.
NumLits == {"1", "2", "3", "4", "5", "6", "42"}
\* String contents of the model (none needs escaping inside a JSON string).
StrLits == {"", "a", "b", "c", "old", "new", "hello", "5", "true", "not json", "[3,",
            "constructor", "0", "1", "2", "3"}
\* Property names every object, array and primitive inherits from its prototype.
InheritedKeys == {"constructor"}

\* The characters of the one-character-indexable strings of the model.
Spell(s) ==
    CASE s = "hello" -> <<"h", "e", "l", "l", "o">>
      [] s = "old" -> <<"o", "l", "d">>
      [] s = "new" -> <<"n", "e", "w">>
      [] s = "true" -> <<"t", "r", "u", "e">>
      [] s = "not json" -> <<"n", "o", "t", " ", "j", "s", "o", "n">>
      [] s = "[3," -> <<"[", "3", ",">>
      [] s = "constructor" -> <<"c", "o", "n", "s", "t", "r", "u", "c", "t", "o", "r">>
      [] s = "" -> <<>>
      [] OTHER -> <<s>>

\* Path segments: a string (object key) or a number (array index).
KeySeg(k) == [k |-> k]
IdxSeg(i) == [i |-> i]
IsIdx(seg) == DOMAIN seg = {"i"}

\* ToPropertyKey: the property name a segment denotes.
ToKey(seg) == IF IsIdx(seg) THEN ToString(seg.i) ELSE seg.k

\* JavaScript truthiness (the `x &&` tests of the handler).
Truthy(v) ==
    CASE v.t \in {"null", "undefined"} -> FALSE
      [] v.t = "bool" -> v.b = "true"
      [] v.t = "str" -> v.s # ""
      [] v.t = "num" -> v.n # "0"
      [] OTHER -> TRUE

\* x && typeof x === "object" && !Array.isArray(x)
IsPlainObject(v) == Truthy(v) /\ v.t \in {"obj"}

\* typeof x === "object" && !Array.isArray(x)   (true of null)
TypeofObjectNotArray(v) == v.t \in {"obj", "null"}

\* ------------------------------------------------------------------------
\* Own properties of objects, elements of arrays
\* ------------------------------------------------------------------------
HasOwn(o, k) == \E n \in 1..Len(o) : o[n].k = k
OwnValue(o, k) == o[CHOOSE n \in 1..Len(o) : o[n].k = k].v

\* canonical array-index property names sort first, ascending
IsIndexKey(k) == \E n \in 0..9 : ToString(n) = k
IndexOfKey(k) == CHOOSE n \in 0..9 : ToString(n) = k
\* the position a new own property k takes in property order
InsertPos(o, k) ==
    IF IsIndexKey(k)
    THEN 1 + Cardinality({n \in 1..Len(o) :
                            IsIndexKey(o[n].k) /\ IndexOfKey(o[n].k) < IndexOfKey(k)})
    ELSE Len(o) + 1

\* obj[k] = v on an ordinary object: overwrite in place, or create
ObjPut(o, k, v) ==
    IF HasOwn(o, k)
    THEN [n \in 1..Len(o) |-> IF o[n].k = k THEN Prop(k, v) ELSE o[n]]
    ELSE LET p == InsertPos(o, k)
         IN  SubSeq(o, 1, p - 1) \o <<Prop(k, v)>> \o SubSeq(o, p, Len(o))

\* delete obj[k]
ObjDelete(o, k) == SelectSeq(o, LAMBDA p : p.k # k)

\* a spread that keeps only the second object
Spread_SecondOnly(a, b) == b

\* { ...a, ...b } for two ordinary objects
RECURSIVE Spread(_, _)
Spread(a, b) == IF b = <<>> THEN a ELSE Spread(ObjPut(a, Head(b).k, Head(b).v), Tail(b))

\* an element write that pushes instead of assigning
ArrPut_Push(a, i, v) == Append(a, v)

\* arr[i] = v: overwrite, append, or extend (holes serialize as null)
ArrPut(a, i, v) ==
    [n \in 1..(IF i + 1 > Len(a) THEN i + 1 ELSE Len(a)) |->
        IF n = i + 1 THEN v ELSE IF n <= Len(a) THEN a[n] ELSE Null]

\* ------------------------------------------------------------------------
\* JSON.stringify and JSON.parse over token texts
\* ------------------------------------------------------------------------
Quote(s) == "\"" \o s \o "\""
IsQuoted(tok) == \E s \in StrLits : tok = Quote(s)
Unquote(tok) == CHOOSE s \in StrLits : tok = Quote(s)

\* JSON.stringify(v, null, 2)
RECURSIVE Stringify(_), StringifyElements(_), StringifyMembers(_)
Stringify(v) ==
    CASE v.t = "null" -> <<"null">>
      [] v.t = "bool" -> <<v.b>>
      [] v.t = "num" -> <<v.n>>
      [] v.t = "str" -> <<Quote(v.s)>>
      [] v.t = "arr" -> <<"[">> \o StringifyElements(v.a) \o <<"]">>
      [] v.t = "obj" -> <<"{">> \o StringifyMembers(v.o) \o <<"}">>
StringifyElements(a) ==
    IF a = <<>> THEN <<>>
    ELSE Stringify(Head(a))
         \o (IF Len(a) > 1 THEN <<",">> \o StringifyElements(Tail(a)) ELSE <<>>)
StringifyMembers(o) ==
    IF o = <<>> THEN <<>>
    ELSE <<Quote(Head(o).k), ":">> \o Stringify(Head(o).v)
         \o (IF Len(o) > 1 THEN <<",">> \o StringifyMembers(Tail(o)) ELSE <<>>)

\* the result of a parse that throws SyntaxError
ParseFail == [ok |-> FALSE]
Parsed(v, next) == [ok |-> TRUE, v |-> v, next |-> next]

\* JSON.parse: recursive descent from token i; `next` is the first token not consumed
RECURSIVE ParseValue(_, _), ParseElements(_, _, _), ParseMembers(_, _, _)
ParseValue(toks, i) ==
    IF i > Len(toks) THEN ParseFail
    ELSE LET tok == toks[i]
         IN  CASE tok = "null" -> Parsed(Null, i + 1)
               [] tok \in {"true", "false"} -> Parsed(Bool(tok), i + 1)
               [] tok \in NumLits -> Parsed(Num(tok), i + 1)
               [] IsQuoted(tok) -> Parsed(Str(Unquote(tok)), i + 1)
               [] tok = "[" ->
                    IF i + 1 <= Len(toks) /\ toks[i + 1] = "]"
                    THEN Parsed(Arr(<<>>), i + 2)
                    ELSE ParseElements(toks, i + 1, <<>>)
               [] tok = "{" ->
                    IF i + 1 <= Len(toks) /\ toks[i + 1] = "}"
                    THEN Parsed(Obj(<<>>), i + 2)
                    ELSE ParseMembers(toks, i + 1, <<>>)
               [] OTHER -> ParseFail
ParseElements(toks, i, acc) ==
    LET r == ParseValue(toks, i)
    IN  IF ~r.ok \/ r.next > Len(toks) THEN ParseFail
        ELSE IF toks[r.next] = "," THEN ParseElements(toks, r.next + 1, Append(acc, r.v))
        ELSE IF toks[r.next] = "]" THEN Parsed(Arr(Append(acc, r.v)), r.next + 1)
        ELSE ParseFail
ParseMembers(toks, i, acc) ==
    IF i + 1 > Len(toks) \/ ~IsQuoted(toks[i]) \/ toks[i + 1] # ":" THEN ParseFail
    ELSE LET r == ParseValue(toks, i + 2)
         IN  IF ~r.ok \/ r.next > Len(toks) THEN ParseFail
             ELSE LET o == ObjPut(acc, Unquote(toks[i]), r.v)
                  IN  IF toks[r.next] = "," THEN ParseMembers(toks, r.next + 1, o)
                      ELSE IF toks[r.next] = "}" THEN Parsed(Obj(o), r.next + 1)
                      ELSE ParseFail

\* JSON.parse(text): the whole text must be one value
JSONParse(toks) ==
    LET r == ParseValue(toks, 1)
    IN  IF r.ok /\ r.next = Len(toks) + 1 THEN [ok |-> TRUE, v |-> r.v] ELSE ParseFail

\* the JavaScript string holding a text (its tokens run together)
RECURSIVE TextString(_)
TextString(toks) == IF toks = <<>> THEN "" ELSE Head(toks) \o TextString(Tail(toks))

\* `${value}` of a primitive row value
TemplateString(v) ==
    CASE v.t = "str" -> v.s
      [] v.t = "num" -> v.n
      [] v.t = "bool" -> v.b
      [] v.t = "null" -> "null"
      [] v.t = "undefined" -> "undefined"
\* the tokens of the text that holds the characters of string s
Lex(s) ==
    CASE s = "" -> <<>>
      [] s = "[3," -> <<"[", "3", ",">>
      [] OTHER -> <<s>>

\* ------------------------------------------------------------------------
\* Property access in strict mode
\* ------------------------------------------------------------------------
Threw == [throw |-> TRUE]
Got(v) == [throw |-> FALSE, v |-> v]

\* base[seg]
Get(base, seg) ==
    LET k == ToKey(seg)
        inherited == IF k \in InheritedKeys THEN HostFunction ELSE Undefined
    IN  CASE base.t \in {"null", "undefined"} -> Threw
          [] base.t = "obj" -> Got(IF HasOwn(base.o, k) THEN OwnValue(base.o, k) ELSE inherited)
          [] base.t = "arr" ->
               Got(IF IsIdx(seg) /\ seg.i < Len(base.a) THEN base.a[seg.i + 1] ELSE inherited)
          [] base.t = "str" ->
               Got(IF IsIdx(seg) /\ seg.i < Len(Spell(base.s))
                   THEN Str(Spell(base.s)[seg.i + 1]) ELSE inherited)
          [] OTHER -> Got(inherited)

\* base[seg] = v; `v` of the result is base after the assignment
Set(base, seg, v) ==
    CASE base.t = "obj" -> Got(Obj(ObjPut(base.o, ToKey(seg), v)))
      [] base.t = "arr" -> Got(IF IsIdx(seg) THEN Arr(ArrPut(base.a, seg.i, v)) ELSE base)
      [] base.t = "function" -> Got(base)
      [] OTHER -> Threw

\* whether base[seg] reads an own property of a container of the document
IsOwnStep(base, seg) ==
    \/ base.t = "obj" /\ HasOwn(base.o, ToKey(seg))
    \/ base.t = "arr" /\ IsIdx(seg) /\ seg.i < Len(base.a)

\* for (const seg of parentPath) cursor = cursor[seg];
\* `inDoc` tells whether the cursor is still a node of the parsed document
RECURSIVE Walk(_, _, _)
Walk(cursor, segs, inDoc) ==
    IF segs = <<>> THEN [throw |-> FALSE, v |-> cursor, inDoc |-> inDoc]
    ELSE LET r == Get(cursor, Head(segs))
         IN  IF r.throw THEN [throw |-> TRUE]
             ELSE Walk(r.v, Tail(segs), inDoc /\ IsOwnStep(cursor, Head(segs)))

\* the document after the node at segs (a node of the document) became `node`
RECURSIVE Rebuild(_, _, _)
Rebuild(root, segs, node) ==
    IF segs = <<>> THEN node
    ELSE Set(root, Head(segs), Rebuild(Get(root, Head(segs)).v, Tail(segs), node)).v

\* ------------------------------------------------------------------------
\* NodeModal: helpers
\* ------------------------------------------------------------------------
\* a row of NodeData["text"]; key "" stands for a key that is undefined or empty,
\* which every test of the component treats alike (`row.key`, `!nodeRows[0].key`)
Row(key, value, type) == [key |-> key, value |-> value, type |-> type]

\* nodeRows.length === 1 && !nodeRows[0].key
IsSingleUnkeyed(nodeRows) == Len(nodeRows) = 1 /\ nodeRows[1].key = ""

\* nodeRows.length > 0 && nodeRows.some(r => r.key)
IsEditingObjectFields(nodeRows) ==
    Len(nodeRows) > 0 /\ \E n \in 1..Len(nodeRows) : nodeRows[n].key # ""

\* the object normalizeNodeData collects from the keyed primitive rows
RECURSIVE PrimitiveFields(_, _)
PrimitiveFields(nodeRows, obj) ==
    IF nodeRows = <<>> THEN obj
    ELSE LET row == Head(nodeRows)
         IN  PrimitiveFields(Tail(nodeRows),
                 IF row.type \notin {"array", "object"} /\ row.key # ""
                 THEN ObjPut(obj, row.key, row.value) ELSE obj)

normalizeNodeData(nodeRows) ==
    IF Len(nodeRows) = 0 THEN <<"{", "}">>
    ELSE IF IsSingleUnkeyed(nodeRows) THEN Lex(TemplateString(nodeRows[1].value))
    ELSE Stringify(Obj(PrimitiveFields(nodeRows, <<>>)))

\* ------------------------------------------------------------------------
\* NodeModal: the Save click
\* ------------------------------------------------------------------------
InvalidJsonMessage == "Invalid JSON. Please enter valid JSON for objects/arrays."
UnresolvedMessage == "Unable to resolve target path in JSON."
\* messages of errors the engine throws (their wording is the engine's)
TypeErrorMessage == "TypeError"
SyntaxErrorMessage == "SyntaxError"

Failed(message) == [ok |-> FALSE, finalJson |-> <<>>, message |-> message]
Saved(finalJson) == [ok |-> TRUE, finalJson |-> finalJson, message |-> ""]

\* currentJson ? JSON.parse(currentJson) : {}
ParsedRoot(currentJson) ==
    IF currentJson = <<>> THEN [ok |-> TRUE, v |-> Obj(<<>>)] ELSE JSONParse(currentJson)

\* a fallback to the literal text that forgets to look at the rows
NewValue_AlwaysLiteral(nodeRows, text) ==
    LET r == JSONParse(text)
    IN  IF r.ok THEN r ELSE [ok |-> TRUE, v |-> Str(TextString(text))]

\* "determine new value": the parsed text, or the text itself for a single unkeyed row
NewValue(nodeRows, text) ==
    LET r == JSONParse(text)
    IN  IF r.ok THEN r
        ELSE IF IsSingleUnkeyed(nodeRows) THEN [ok |-> TRUE, v |-> Str(TextString(text))]
        ELSE ParseFail

\* the root branch: the document text that is stored and emitted
SaveRoot(parsedRoot, nodeRows, newValue) ==
    IF IsEditingObjectFields(nodeRows) /\ IsPlainObject(newValue)
    THEN Stringify(IF IsPlainObject(parsedRoot)
                   THEN Obj(Spread(parsedRoot.o, newValue.o)) ELSE newValue)
    ELSE Stringify(newValue)

\* the rename branch: parentObj[newKey] = newVal; delete parentObj[oldKey]
RenameIn(cursor, lastKey, target, oldKey, newValue) ==
    LET newKey == newValue.o[1].k
        newVal == newValue.o[1].v
    IN  IF TypeofObjectNotArray(target)
        THEN IF target.t = "null" THEN Threw
             ELSE LET put == ObjPut(target.o, newKey, newVal)
                      parentObj == IF newKey # oldKey THEN ObjDelete(put, oldKey) ELSE put
                  IN  Set(cursor, lastKey, Obj(parentObj))
        ELSE Set(cursor, lastKey, newValue)

\* the strategy cascade of the non-root branch: cursor after the write
WriteTarget(cursor, lastKey, target, nodeRows, newValue) ==
    IF IsEditingObjectFields(nodeRows) /\ IsPlainObject(target) /\ IsPlainObject(newValue)
    THEN Set(cursor, lastKey, Obj(Spread(target.o, newValue.o)))
    ELSE IF /\ Len(nodeRows) = 1
            /\ nodeRows[1].key # ""
            /\ IsPlainObject(newValue)
            /\ Len(newValue.o) = 1
    THEN RenameIn(cursor, lastKey, target, nodeRows[1].key, newValue)
    ELSE Set(cursor, lastKey, newValue)

\* the non-root branch
SaveAtPath(parsedRoot, path, nodeRows, newValue) ==
    LET parentPath == SubSeq(path, 1, Len(path) - 1)
        lastKey == path[Len(path)]
        w == Walk(parsedRoot, parentPath, TRUE)
    IN  IF w.throw THEN Failed(TypeErrorMessage)
        ELSE IF w.v.t = "undefined" THEN Failed(UnresolvedMessage)
        ELSE LET target == Get(w.v, lastKey)
             IN  IF target.throw THEN Failed(TypeErrorMessage)
                 ELSE LET written == WriteTarget(w.v, lastKey, target.v, nodeRows, newValue)
                      IN  IF written.throw THEN Failed(TypeErrorMessage)
                          ELSE Saved(Stringify(IF w.inDoc
                                               THEN Rebuild(parsedRoot, parentPath, written.v)
                                               ELSE parsedRoot))

\* the try block of the Save click up to the store write: what is stored, or the error
SaveOutcome(currentJson, nodeData, text) ==
    LET root == ParsedRoot(currentJson)
        nv == NewValue(nodeData.text, text)
    IN  IF ~root.ok THEN Failed(SyntaxErrorMessage)
        ELSE IF ~nv.ok THEN Failed(InvalidJsonMessage)
        ELSE IF nodeData.path = <<>> THEN Saved(SaveRoot(root.v, nodeData.text, nv.v))
        ELSE SaveAtPath(root.v, nodeData.path, nodeData.text, nv.v)

\* ------------------------------------------------------------------------
\* The broadcast and the editor page's listener
\* ------------------------------------------------------------------------
Effect(op, arg) == [op |-> op, arg |-> arg]

\* a handler that sets without comparing
JsonUpdateHandler_NoCompare(detail, prev, ref) ==
    IF detail = <<>>
    THEN [editorValue |-> prev, monacoRef |-> ref, effects |-> <<>>]
    ELSE [editorValue |-> detail,
          monacoRef |-> IF ref # <<>> THEN <<detail>> ELSE ref,
          effects |-> <<Effect("setState", detail)>>
                      \o (IF ref # <<>> THEN <<Effect("setValue", detail)>> ELSE <<>>)]

\* the "json:update" handler of EditorPage: the listener's state after the event and
\* what it did; monacoRef is <<>> while monacoRef.current is null, else <<buffer>>
JsonUpdateHandler(detail, prev, ref) ==
    IF detail = <<>>
    THEN [editorValue |-> prev, monacoRef |-> ref, effects |-> <<>>]
    ELSE [editorValue |-> IF prev = detail THEN prev ELSE detail,
          monacoRef |-> IF ref # <<>> /\ ref[1] # detail THEN <<detail>> ELSE ref,
          effects |-> (IF prev = detail THEN <<>> ELSE <<Effect("setState", detail)>>)
                      \o (IF ref # <<>> /\ ref[1] # detail
                          THEN <<Effect("setValue", detail)>> ELSE <<>>)]

\* emitJsonUpdate: dispatch to the window, swallowing a failure to dispatch
emitJsonUpdate(jsonString, available) ==
    IF available THEN <<Effect("dispatchEvent", jsonString)>> ELSE <<>>

\* a Save that broadcasts before it writes the store
StoreAndEmit_EmitFirst(out, available) ==
    IF out.ok
    THEN emitJsonUpdate(out.finalJson, available) \o <<Effect("setJson", out.finalJson)>>
    ELSE <<>>

\* a Save that writes the store before it knows the edit resolved
StoreAndEmit_StoreFirst(out, available) ==
    <<Effect("setJson", out.finalJson)>>
    \o (IF out.ok THEN emitJsonUpdate(out.finalJson, available) ELSE <<>>)

\* the store write and the broadcast that end every successful branch of Save
StoreAndEmit(out, available) ==
    IF out.ok
    THEN <<Effect("setJson", out.finalJson)>> \o emitJsonUpdate(out.finalJson, available)
    ELSE <<>>

Ops(effects, op) == SelectSeq(effects, LAMBDA e : e.op = op)
Did(effects, op) == Ops(effects, op) # <<>>

\* ------------------------------------------------------------------------
\* State
\* ------------------------------------------------------------------------
VARIABLES
    json,                 \* useJson: the stored document text
    selectedNode,         \* useGraph: the selected node (path and rows)
    opened,               \* the modal's `opened` prop
    isEditing,            \* NodeModal state
    editedText,           \* NodeModal state: the textarea's text
    error,                \* NodeModal state: <<>> for null, else <<message>>
    listening,            \* EditorPage is mounted and its listener registered
    editorValue,          \* EditorPage state
    monacoRef,            \* EditorPage ref: <<>> for null, else <<buffer>>
    customEventAvailable, \* whether the environment lets CustomEvent be dispatched
    effects,              \* history: what the Save click that just ran did, in order
    last,                 \* history: the Save click that just ran (NoClick otherwise)
    saved                 \* history: node and text of the latest successful Save

vars == <<json, selectedNode, opened, isEditing, editedText, error, listening,
          editorValue, monacoRef, customEventAvailable, effects, last, saved>>

modal == <<isEditing, editedText, error>>
page == <<listening, editorValue, monacoRef>>

NoNode == [path |-> <<>>, text |-> <<>>]
NoClick ==
    [clicked |-> FALSE, ok |-> FALSE, repeat |-> FALSE, pre |-> <<>>, text |-> <<>>,
     node |-> NoNode, heard |-> FALSE, prev |-> <<>>, ref |-> <<>>]
NoneSaved == [any |-> FALSE, node |-> NoNode, text |-> <<>>]

\* ------------------------------------------------------------------------
\* Inputs of the model: documents, selected nodes, typed texts
\* ------------------------------------------------------------------------
DocRename == Obj(<<Prop("a", Obj(<<Prop("old", Num("5"))>>))>>)
DocTwoKeys == Obj(<<Prop("a", Num("1")), Prop("b", Num("2"))>>)
DocArray == Obj(<<Prop("a", Arr(<<Num("1"), Num("2")>>))>>)
DocString == Obj(<<Prop("a", Str("hello"))>>)
DocDigits == Obj(<<Prop("a", Str("5"))>>)
DocNull == Obj(<<Prop("a", Obj(<<Prop("new", Null)>>))>>)

Node(path, rows) == [path |-> path, text |-> rows]
Scenario(doc, path, rows) == [json |-> Stringify(doc), node |-> Node(path, rows)]

\* a stored document with the node selected in it: nodes the graph shows for the
\* document, nodes addressing one field of an object, and nodes whose path is stale
Scenarios ==
    {Scenario(DocTwoKeys, <<>>,
              <<Row("a", Num("1"), "number"), Row("b", Num("2"), "number")>>),
     Scenario(DocRename, <<>>, <<Row("a", Undefined, "object")>>),
     Scenario(DocRename, <<KeySeg("a")>>, <<Row("old", Num("5"), "number")>>),
     Scenario(DocRename, <<KeySeg("a"), KeySeg("old")>>, <<Row("old", Num("5"), "number")>>),
     Scenario(DocNull, <<KeySeg("a"), KeySeg("new")>>, <<Row("new", Null, "null")>>),
     Scenario(DocArray, <<KeySeg("a")>>, <<>>),
     Scenario(DocArray, <<KeySeg("a"), IdxSeg(0)>>, <<Row("", Num("1"), "number")>>),
     Scenario(DocArray, <<KeySeg("a"), IdxSeg(3)>>, <<Row("", Num("1"), "number")>>),
     Scenario(DocString, <<KeySeg("a")>>, <<Row("", Str("hello"), "string")>>),
     Scenario(DocDigits, <<KeySeg("a")>>, <<Row("", Str("5"), "string")>>),
     Scenario(DocString, <<KeySeg("b"), KeySeg("c")>>, <<Row("", Num("1"), "number")>>),
     Scenario(DocTwoKeys, <<KeySeg("b"), KeySeg("c")>>, <<Row("", Num("1"), "number")>>),
     Scenario(DocString, <<KeySeg("b"), KeySeg("c"), KeySeg("c")>>,
              <<Row("", Num("1"), "number")>>),
     Scenario(DocTwoKeys, <<KeySeg("constructor"), KeySeg("c")>>,
              <<Row("", Num("1"), "number")>>),
     [json |-> <<>>, node |-> Node(<<>>, <<Row("b", Num("2"), "number")>>)]}

\* texts the user types into the textarea
Texts ==
    {<<"{", Quote("b"), ":", "3", "}">>,
     <<"{", Quote("new"), ":", "5", "}">>,
     <<"{", Quote("b"), ":", "3", ",", Quote("new"), ":", "5", "}">>,
     <<"[", "3", ",", "4", "]">>,
     <<"not json">>}

\* ------------------------------------------------------------------------
\* Initial state: the page not yet mounted, the modal closed
\* ------------------------------------------------------------------------
Init ==
    /\ \E s \in Scenarios : json = s.json /\ selectedNode = s.node
    /\ customEventAvailable \in BOOLEAN
    /\ opened = FALSE
    /\ isEditing = FALSE
    /\ editedText = <<>>
    /\ error = <<>>
    /\ listening = FALSE
    /\ editorValue = <<>>
    /\ monacoRef = <<>>
    /\ effects = <<>>
    /\ last = NoClick
    /\ saved = NoneSaved

\* no Save click has just run
NotSaving == effects' = <<>> /\ last' = NoClick /\ UNCHANGED saved

\* ------------------------------------------------------------------------
\* EditorPage
\* ------------------------------------------------------------------------
\* the mount effect: initial sync from the store, then addEventListener
Mount ==
    /\ ~listening
    /\ listening' = TRUE
    /\ editorValue' = IF json # <<>> THEN json ELSE editorValue
    /\ monacoRef' = IF json # <<>> /\ monacoRef # <<>> THEN <<json>> ELSE monacoRef
    /\ NotSaving
    /\ UNCHANGED <<json, selectedNode, opened, modal, customEventAvailable>>

\* unmount: removeEventListener; the page's and the modal's component state is dropped
Unmount ==
    /\ listening
    /\ listening' = FALSE
    /\ editorValue' = <<>>
    /\ isEditing' = FALSE
    /\ editedText' = <<>>
    /\ error' = <<>>
    /\ NotSaving
    /\ UNCHANGED <<json, selectedNode, opened, monacoRef, customEventAvailable>>

\* ------------------------------------------------------------------------
\* NodeModal
\* ------------------------------------------------------------------------
\* a reset that forgets to clear the error
ResetEditing_KeepsError ==
    /\ isEditing' = FALSE
    /\ editedText' = <<>>
    /\ error' = error

\* useEffect on [opened, nodeData?.id]: reset the editing state
ResetEditing ==
    /\ isEditing' = FALSE
    /\ editedText' = <<>>
    /\ error' = <<>>

OpenModal ==
    /\ listening /\ ~opened
    /\ opened' = TRUE
    /\ ResetEditing
    /\ NotSaving
    /\ UNCHANGED <<json, selectedNode, page, customEventAvailable>>

\* the close button, or the modal's onClose
CloseModal ==
    /\ listening /\ opened
    /\ opened' = FALSE
    /\ ResetEditing
    /\ NotSaving
    /\ UNCHANGED <<json, selectedNode, page, customEventAvailable>>

\* the Edit button
Edit ==
    /\ listening /\ opened /\ ~isEditing
    /\ editedText' = normalizeNodeData(selectedNode.text)
    /\ isEditing' = TRUE
    /\ NotSaving
    /\ UNCHANGED <<json, selectedNode, opened, error, page, customEventAvailable>>

\* the textarea's onChange
ChangeText ==
    /\ listening /\ opened /\ isEditing
    /\ \E text \in Texts : editedText' = text
    /\ NotSaving
    /\ UNCHANGED <<json, selectedNode, opened, isEditing, error, page, customEventAvailable>>

\* the Cancel button
Cancel ==
    /\ listening /\ opened /\ isEditing
    /\ ResetEditing
    /\ NotSaving
    /\ UNCHANGED <<json, selectedNode, opened, page, customEventAvailable>>

\* the Save button
Save ==
    /\ listening /\ opened /\ isEditing
    /\ LET out == SaveOutcome(json, selectedNode, editedText)
           done == StoreAndEmit(out, customEventAvailable)
           stored == Ops(done, "setJson")
           sent == Ops(done, "dispatchEvent")
           heard == sent # <<>> /\ listening
           h == IF heard THEN JsonUpdateHandler(sent[1].arg, editorValue, monacoRef)
                ELSE [editorValue |-> editorValue, monacoRef |-> monacoRef, effects |-> <<>>]
       IN  /\ json' = IF stored # <<>> THEN stored[Len(stored)].arg ELSE json
           /\ editorValue' = h.editorValue
           /\ monacoRef' = h.monacoRef
           /\ effects' = done \o (IF heard THEN <<Effect("handler", sent[1].arg)>> ELSE <<>>)
                              \o h.effects
           /\ last' = [clicked |-> TRUE, ok |-> out.ok,
                       repeat |-> saved.any /\ saved.node = selectedNode
                                  /\ saved.text = editedText,
                       pre |-> json, text |-> editedText, node |-> selectedNode,
                       heard |-> heard, prev |-> editorValue, ref |-> monacoRef]
           /\ saved' = IF out.ok
                       THEN [any |-> TRUE, node |-> selectedNode, text |-> editedText]
                       ELSE saved
           /\ IF out.ok
              THEN /\ isEditing' = FALSE
                   /\ editedText' = <<>>
                   /\ error' = <<>>
                   /\ opened' = FALSE
              ELSE /\ error' = <<out.message>>
                   /\ UNCHANGED <<opened, isEditing, editedText>>
    /\ UNCHANGED <<selectedNode, listening, customEventAvailable>>

\* ------------------------------------------------------------------------
\* The listener with an editor attached to monacoRef.  The page as written
\* leaves monacoRef.current null; this start runs the handler's buffer branch.
\* ------------------------------------------------------------------------
SyncScenarios ==
    {s \in Scenarios :
        s.node.path \in {<<KeySeg("a")>>, <<KeySeg("a"), IdxSeg(0)>>}}

InitSync ==
    /\ \E s \in SyncScenarios : json = s.json /\ selectedNode = s.node
    /\ customEventAvailable \in BOOLEAN
    /\ monacoRef \in {<<>>, << <<>> >>}
    /\ opened = FALSE
    /\ isEditing = FALSE
    /\ editedText = <<>>
    /\ error = <<>>
    /\ listening = FALSE
    /\ editorValue = <<>>
    /\ effects = <<>>
    /\ last = NoClick
    /\ saved = NoneSaved

Next ==
    \/ Mount
    \/ Unmount
    \/ OpenModal
    \/ CloseModal
    \/ Edit
    \/ ChangeText
    \/ Cancel
    \/ Save

Spec == Init /\ [][Next]_vars
SpecSync == InitSync /\ [][Next]_vars

\* ------------------------------------------------------------------------
\* The modal while the selection moves between nodes of the graph
\* ------------------------------------------------------------------------
ModalScenarios ==
    {s \in Scenarios :
        \/ s.node.path = <<KeySeg("a")>>
              /\ s.json \in {Stringify(DocRename), Stringify(DocString)}
        \/ s.node.path = <<KeySeg("b"), KeySeg("c")>> /\ s.json = Stringify(DocString)}
ModalNodes == {s.node : s \in ModalScenarios}

InitModal ==
    /\ \E s \in ModalScenarios : json = s.json /\ selectedNode = s.node
    /\ customEventAvailable \in BOOLEAN
    /\ opened = FALSE
    /\ isEditing = FALSE
    /\ editedText = <<>>
    /\ error = <<>>
    /\ listening = FALSE
    /\ editorValue = <<>>
    /\ monacoRef = <<>>
    /\ effects = <<>>
    /\ last = NoClick
    /\ saved = NoneSaved

\* useGraph's selectedNode becomes another node; the reset effect of the mounted
\* modal runs when nodeData?.id differs, and does not when the new node carries
\* the id of the old one
SelectNode ==
    /\ \E node \in ModalNodes \ {selectedNode} : selectedNode' = node
    /\ \E idChanged \in BOOLEAN :
          IF listening /\ idChanged THEN ResetEditing ELSE UNCHANGED modal
    /\ NotSaving
    /\ UNCHANGED <<json, opened, page, customEventAvailable>>

NextModal ==
    \/ Next
    \/ SelectNode

SpecModal == InitModal /\ [][NextModal]_vars

\* ------------------------------------------------------------------------
\* The rows the graph shows for a value (the description of FieldShape): an
\* object's fields as keyed rows, a scalar as a single unkeyed row
\* ------------------------------------------------------------------------
TypeName(v) ==
    CASE v.t = "str" -> "string"
      [] v.t = "num" -> "number"
      [] v.t = "bool" -> "boolean"
      [] v.t = "null" -> "null"
      [] v.t = "arr" -> "array"
      [] v.t = "obj" -> "object"
RowsOf(v) ==
    IF v.t = "obj"
    THEN [n \in 1..Len(v.o) |->
             Row(v.o[n].k,
                 IF v.o[n].v.t \in {"obj", "arr"} THEN Undefined ELSE v.o[n].v,
                 TypeName(v.o[n].v))]
    ELSE <<Row("", v, TypeName(v))>>

\* ------------------------------------------------------------------------
\* Vocabulary of the properties
\* ------------------------------------------------------------------------
\* the document a stored text holds (the empty text reads as {})
DocOf(text) == ParsedRoot(text).v

\* the member of a JSON container a path segment names: a key of an object, an
\* index of an array
HasChild(v, seg) ==
    \/ v.t = "obj" /\ ~IsIdx(seg) /\ \E n \in 1..Len(v.o) : v.o[n].k = seg.k
    \/ v.t = "arr" /\ IsIdx(seg) /\ seg.i < Len(v.a)
Child(v, seg) ==
    IF v.t = "arr" THEN v.a[seg.i + 1]
    ELSE v.o[CHOOSE n \in 1..Len(v.o) : v.o[n].k = seg.k].v

\* the value a path leads to in a document
RECURSIVE ValueAt(_, _)
ValueAt(v, segs) ==
    IF segs = <<>> THEN [found |-> TRUE, v |-> v]
    ELSE IF HasChild(v, Head(segs)) THEN ValueAt(Child(v, Head(segs)), Tail(segs))
    ELSE [found |-> FALSE]

ParentPath(path) == SubSeq(path, 1, Len(path) - 1)
FinalKey(path) == path[Len(path)]
IsContainer(v) == v.t \in {"obj", "arr"}
KeyFits(v, seg) == (v.t = "obj" /\ ~IsIdx(seg)) \/ (v.t = "arr" /\ IsIdx(seg))

\* the path is the root, or leads to a container that can hold its final key
Resolvable(doc, path) ==
    \/ path = <<>>
    \/ LET parent == ValueAt(doc, ParentPath(path))
       IN  parent.found /\ KeyFits(parent.v, FinalKey(path))

\* walking all but the last segment meets a missing member or a non-container
WalkFails(doc, path) ==
    /\ path # <<>>
    /\ LET parent == ValueAt(doc, ParentPath(path))
       IN  ~parent.found \/ ~IsContainer(parent.v)

KeysOf(o) == {o[n].k : n \in 1..Len(o)}
ValueOfKey(o, k) == o[CHOOSE n \in 1..Len(o) : o[n].k = k].v
HasKeyedRow(rows) == \E n \in 1..Len(rows) : rows[n].key # ""
IsObject(v) == v.t = "obj"

\* the click that just ran: the document before it, and its inputs
PreDoc == DocOf(last.pre)
PostDoc == DocOf(json)
Input == JSONParse(last.text)
Stored == Ops(effects, "setJson")
Broadcast == Ops(effects, "dispatchEvent")

\* ------------------------------------------------------------------------
\* C1  Save is all-or-nothing
\* ------------------------------------------------------------------------
\* C1 as stated: after every Save click, either the store holds the new document,
\* written once, and exactly one broadcast carrying it was sent, or an error is
\* reported, the store is as before and nothing was broadcast.
C1_AllOrNothing ==
    last.clicked =>
        \/ /\ last.ok
           /\ Stored = <<Effect("setJson", json)>>
           /\ Broadcast = <<Effect("dispatchEvent", json)>>
        \/ /\ ~last.ok /\ error # <<>>
           /\ json = last.pre
           /\ Stored = <<>> /\ Broadcast = <<>>

\* C1 amended: as C1, but where the environment blocks CustomEvent a successful Save
\* writes the store and sends no broadcast; a broadcast is never sent without the
\* store having been set to the document it carries.
C1_AllOrNothingWhereDispatchable ==
    last.clicked =>
        \/ /\ last.ok
           /\ Stored = <<Effect("setJson", json)>>
           /\ Broadcast = IF customEventAvailable
                          THEN <<Effect("dispatchEvent", json)>> ELSE <<>>
        \/ /\ ~last.ok /\ error # <<>>
           /\ json = last.pre
           /\ Stored = <<>> /\ Broadcast = <<>>

\* a successful Save that changed the store where CustomEvent is blocked
C1_Witness ==
    /\ last.clicked /\ last.ok /\ ~customEventAvailable
    /\ json # last.pre
    /\ Stored # <<>> /\ Broadcast = <<>>

\* ------------------------------------------------------------------------
\* C2  Rename
\* ------------------------------------------------------------------------
\* the row is the field the path ends at, held by an object; the input is a
\* one-key object with another key; the field's value is no plain object
RenameCase ==
    /\ last.clicked
    /\ last.node.path # <<>>
    /\ Len(last.node.text) = 1 /\ last.node.text[1].key # ""
    /\ FinalKey(last.node.path) = KeySeg(last.node.text[1].key)
    /\ LET parent == ValueAt(PreDoc, ParentPath(last.node.path))
       IN  /\ parent.found /\ IsObject(parent.v)
           /\ HasChild(parent.v, FinalKey(last.node.path))
           /\ ~IsObject(Child(parent.v, FinalKey(last.node.path)))
    /\ Input.ok /\ IsObject(Input.v) /\ Len(Input.v.o) = 1
    /\ Input.v.o[1].k # last.node.text[1].key

\* C2: in the rename case Save deletes key k from the holding object, adds key k2
\* with the input's value and leaves every sibling key unchanged.
C2_Rename ==
    RenameCase =>
        /\ last.ok
        /\ LET before == ValueAt(PreDoc, ParentPath(last.node.path)).v.o
               after == ValueAt(PostDoc, ParentPath(last.node.path))
               k == last.node.text[1].key
               k2 == Input.v.o[1].k
           IN  /\ after.found /\ IsObject(after.v)
               /\ KeysOf(after.v.o) = (KeysOf(before) \ {k}) \cup {k2}
               /\ ValueOfKey(after.v.o, k2) = Input.v.o[1].v
               /\ \A s \in KeysOf(before) \ {k, k2} :
                      ValueOfKey(after.v.o, s) = ValueOfKey(before, s)

\* ------------------------------------------------------------------------
\* C3  Merge
\* ------------------------------------------------------------------------
\* a keyed row, and the target and the input are both plain objects
MergeCase ==
    /\ last.clicked
    /\ HasKeyedRow(last.node.text)
    /\ LET target == ValueAt(PreDoc, last.node.path)
       IN  target.found /\ IsObject(target.v)
    /\ Input.ok /\ IsObject(Input.v)

\* C3: in the merge case the target after Save has every key of the input with the
\* input's value, every other key of the old target with its old value, and no more.
C3_Merge ==
    MergeCase =>
        /\ last.ok
        /\ LET old == ValueAt(PreDoc, last.node.path).v.o
               new == Input.v.o
               after == ValueAt(PostDoc, last.node.path)
           IN  /\ after.found /\ IsObject(after.v)
               /\ KeysOf(after.v.o) = KeysOf(old) \cup KeysOf(new)
               /\ \A k \in KeysOf(new) : ValueOfKey(after.v.o, k) = ValueOfKey(new, k)
               /\ \A k \in KeysOf(old) \ KeysOf(new) :
                      ValueOfKey(after.v.o, k) = ValueOfKey(old, k)

\* the root merge of {"a":1,"b":2} with {"b":3}
C3_Witness ==
    /\ MergeCase /\ last.ok
    /\ last.node.path = <<>>
    /\ PreDoc = DocTwoKeys
    /\ last.text = <<"{", Quote("b"), ":", "3", "}">>
    /\ PostDoc = Obj(<<Prop("a", Num("1")), Prop("b", Num("3"))>>)

\* ------------------------------------------------------------------------
\* C4  Replace is the default
\* ------------------------------------------------------------------------
\* the value Save is to write: the parsed text, or the text of a single unkeyed row
HasNewValue == Input.ok \/ (Len(last.node.text) = 1 /\ last.node.text[1].key = "")
NewValueOfClick == IF Input.ok THEN Input.v ELSE Str(TextString(last.text))

\* exactly one keyed row, and a one-key object whose key differs from the row's
RenameConditions ==
    /\ Len(last.node.text) = 1 /\ last.node.text[1].key # ""
    /\ Input.ok /\ IsObject(Input.v) /\ Len(Input.v.o) = 1
    /\ Input.v.o[1].k # last.node.text[1].key

ReplaceCase ==
    /\ last.clicked
    /\ Resolvable(PreDoc, last.node.path)
    /\ HasNewValue
    /\ ~MergeCase
    /\ ~RenameConditions

\* C4: for a resolvable path, when neither the merge nor the rename conditions hold,
\* Save succeeds and the target is exactly the new value.
C4_ReplaceIsDefault ==
    ReplaceCase =>
        /\ last.ok
        /\ ValueAt(PostDoc, last.node.path) = [found |-> TRUE, v |-> NewValueOfClick]

\* ------------------------------------------------------------------------
\* C5  Invalid path fails closed
\* ------------------------------------------------------------------------
\* C5: when the walk to the parent meets a missing member or a non-container, Save
\* reports an error, the stored document is unchanged and nothing is broadcast.
C5_InvalidPathFailsClosed ==
    (last.clicked /\ WalkFails(PreDoc, last.node.path)) =>
        /\ ~last.ok /\ error # <<>>
        /\ json = last.pre
        /\ Stored = <<>> /\ Broadcast = <<>>

\* ------------------------------------------------------------------------
\* C6  Text that is not valid JSON
\* ------------------------------------------------------------------------
InvalidText == last.clicked /\ ~Input.ok
ScalarLeafRows == Len(last.node.text) = 1 /\ last.node.text[1].key = ""

\* C6: for text that is not valid JSON, a single unkeyed row (at a path that
\* resolves) has its target replaced by the text as a string; every other shape of
\* rows fails with the invalid-JSON error and leaves the store unchanged.
C6_InvalidJsonText ==
    InvalidText =>
        /\ (ScalarLeafRows /\ Resolvable(PreDoc, last.node.path)) =>
              /\ last.ok
              /\ ValueAt(PostDoc, last.node.path)
                    = [found |-> TRUE, v |-> Str(TextString(last.text))]
        /\ ~ScalarLeafRows =>
              /\ ~last.ok /\ error = <<InvalidJsonMessage>>
              /\ json = last.pre /\ Stored = <<>>

\* {"a":"hello"} at ["a"], a single unkeyed row, text `not json`
C6_Witness ==
    /\ InvalidText /\ ScalarLeafRows /\ last.ok
    /\ PreDoc = DocString
    /\ last.text = <<"not json">>
    /\ PostDoc = Obj(<<Prop("a", Str("not json"))>>)

\* ------------------------------------------------------------------------
\* C7  The store is written before the broadcast, the broadcast before delivery
\* ------------------------------------------------------------------------
EffectsOrdered ==
    \A i \in 1..Len(effects) :
        /\ effects[i].op = "setJson" => effects[i].arg = json
        /\ effects[i].op = "dispatchEvent" =>
              i > 1 /\ effects[i - 1] = Effect("setJson", effects[i].arg)
        /\ effects[i].op = "handler" =>
              \E j \in 1..(i - 1) : effects[j] = Effect("dispatchEvent", effects[i].arg)
        /\ effects[i].op \in {"setState", "setValue"} =>
              \E j \in 1..(i - 1) : effects[j] = Effect("handler", effects[i].arg)

\* C7: in every Save the store write precedes the broadcast, which carries the
\* stored string, and the delivery precedes the listener's update; a listener's
\* value changes only to the document the store already holds.
C7_StoreBeforeBroadcast ==
    last.clicked =>
        /\ EffectsOrdered
        /\ last.ok => Stored = <<Effect("setJson", json)>>
        /\ editorValue # last.prev =>
              editorValue = json /\ Did(effects, "handler") /\ Did(effects, "setState")
        /\ monacoRef # last.ref =>
              monacoRef = <<json>> /\ Did(effects, "handler") /\ Did(effects, "setValue")

\* a Save whose broadcast reached the listener and changed its value
C7_Witness ==
    /\ last.clicked /\ last.ok
    /\ effects = <<Effect("setJson", json), Effect("dispatchEvent", json),
                   Effect("handler", json), Effect("setState", json)>>
    /\ editorValue = json /\ json # last.prev

\* ------------------------------------------------------------------------
\* C9  Idempotence
\* ------------------------------------------------------------------------
\* C9: a successful Save that repeats the latest successful Save (same node, same
\* text) on the document that Save produced leaves the document as it is.
C9_Idempotent == (last.clicked /\ last.repeat /\ last.ok) => json = last.pre

\* {"new":5} saved twice at ["a","old"]
C9_Witness ==
    /\ last.clicked /\ last.repeat /\ last.ok
    /\ last.node.path = <<KeySeg("a"), KeySeg("old")>>
    /\ last.text = <<"{", Quote("new"), ":", "5", "}">>
    /\ PostDoc = Obj(<<Prop("a", Obj(<<Prop("old", Obj(<<Prop("new", Num("5"))>>))>>))>>)

\* ------------------------------------------------------------------------
\* C8  Broadcast suppression
\* ------------------------------------------------------------------------
Published == Ops(effects, "handler")[1].arg

\* C8: a listener the broadcast reaches makes no state update when its value equals
\* the published document and no setValue when its buffer equals it; a value or
\* buffer that differs becomes the published document.
C8_BroadcastSuppression ==
    (last.clicked /\ last.heard) =>
        /\ Did(effects, "handler") /\ Published = json
        /\ last.prev = Published => editorValue = last.prev /\ ~Did(effects, "setState")
        /\ last.prev # Published => editorValue = Published /\ Did(effects, "setState")
        /\ last.ref = <<>> => monacoRef = <<>> /\ ~Did(effects, "setValue")
        /\ (last.ref # <<>> /\ last.ref[1] = Published) =>
              monacoRef = last.ref /\ ~Did(effects, "setValue")
        /\ (last.ref # <<>> /\ last.ref[1] # Published) =>
              monacoRef = <<Published>> /\ Did(effects, "setValue")

\* a broadcast reaching a listener whose value and buffer already equal it
C8_Witness ==
    /\ last.clicked /\ last.heard
    /\ last.ref # <<>>
    /\ last.prev = json /\ last.ref = <<json>>
    /\ effects = <<Effect("setJson", json), Effect("dispatchEvent", json),
                   Effect("handler", json)>>

\* ------------------------------------------------------------------------
\* C10  Edit, then Save with the text untouched
\* ------------------------------------------------------------------------
\* the node's path leads to an object or a scalar of the document, and its rows
\* are the rows of that value
Reflects(node, doc) ==
    LET target == ValueAt(doc, node.path)
    IN  target.found /\ target.v.t # "arr" /\ node.text = RowsOf(target.v)

\* C10: Save of the text Edit prefills, for a node that reflects the document,
\* succeeds and leaves a document of equal value.
C10_NoOpRoundTrip ==
    (/\ last.clicked
     /\ Reflects(last.node, PreDoc)
     /\ last.text = normalizeNodeData(last.node.text)) =>
        last.ok /\ PostDoc = PreDoc

\* ------------------------------------------------------------------------
\* C11  The modal's editing state
\* ------------------------------------------------------------------------
\* C11: whenever the modal is not in editing mode the edit buffer is empty and no
\* error is held; a failed Save changes only the error message (editing mode stays
\* on, the buffer is as typed, the modal stays open, store and listener are as
\* before); a successful Save leaves editing mode off and the modal closed.
C11_ModalEditState ==
    /\ ~isEditing => editedText = <<>> /\ error = <<>>
    /\ (last.clicked /\ ~last.ok) =>
          /\ error # <<>>
          /\ isEditing /\ opened /\ editedText = last.text
          /\ json = last.pre /\ selectedNode = last.node
          /\ editorValue = last.prev /\ monacoRef = last.ref
    /\ (last.clicked /\ last.ok) =>
          ~isEditing /\ ~opened /\ editedText = <<>> /\ error = <<>>

\* a failed Save of typed text on a node selected after an earlier successful Save
C11_Witness ==
    /\ last.clicked /\ ~last.ok
    /\ saved.any /\ saved.node # selectedNode
    /\ isEditing /\ opened
    /\ editedText = <<"not json">>
    /\ error = <<InvalidJsonMessage>>

====
